---- MODULE Spec2Model ----
(***************************************************************************)
(* FreeStyle Lite driver (glucometerutils/drivers/fslite.py).              *)
(*                                                                         *)
(* A text line is a sequence of one-character strings; a response is a     *)
(* sequence of lines.  Python's 0-based subscripts are kept through        *)
(* item(seq, j).  A Python call is modelled by an operator whose value is  *)
(* a result record: err = "none" and the returned value in val, or the     *)
(* name of the raised exception in err and its argument in arg.            *)
(***************************************************************************)
EXTENDS Integers, Sequences, FiniteSets, TLC

VARIABLES
  data,      \* the decoded response of the last `mem` command
  self,      \* the Device instance's attributes (name -> value); absent until assigned
  outcome,   \* how the last connect() ended
  garbled,   \* <<>>, or <<j, p>>: character p of line j was replaced in transit
  calls,     \* number of connect() calls made so far
  yielded,   \* what get_readings() produced since the last connect()
  line,      \* the line handed to a line parser called on its own
  parsed     \* that parser's result

vars == <<data, self, outcome, garbled, calls, yielded, line, parsed>>

----------------------------------------------------------------------------
(* Characters.  Printable[i] is the character of code 31 + i; the grave    *)
(* accent, which a string of this notation cannot hold, is spelled out.    *)

Printable ==
  << " ", "!", "\"", "#", "$", "%", "&", "'", "(", ")", "*", "+",
     ",", "-", ".", "/", "0", "1", "2", "3", "4", "5", "6", "7",
     "8", "9", ":", ";", "<", "=", ">", "?", "@", "A", "B", "C",
     "D", "E", "F", "G", "H", "I", "J", "K", "L", "M", "N", "O",
     "P", "Q", "R", "S", "T", "U", "V", "W", "X", "Y", "Z", "[",
     "\\", "]", "^", "_", "GRAVE", "a", "b", "c", "d", "e", "f", "g",
     "h", "i", "j", "k", "l", "m", "n", "o", "p", "q", "r", "s",
     "t", "u", "v", "w", "x", "y", "z", "{", "|", "}", "~" >>

CR == "\r"
LF == "\n"

Chars == {Printable[i] : i \in 1..Len(Printable)} \cup {CR, LF}

OrdTable ==
  [c \in Chars |->
     IF c = LF THEN 10
     ELSE IF c = CR THEN 13
     ELSE 31 + (CHOOSE i \in 1..Len(Printable) : Printable[i] = c)]

ord(c) == OrdTable[c]

Digits == {"0", "1", "2", "3", "4", "5", "6", "7", "8", "9"}

HexDigits == Digits \cup {"A", "B", "C", "D", "E", "F"}

Upper ==
  {"A", "B", "C", "D", "E", "F", "G", "H", "I", "J", "K", "L", "M",
   "N", "O", "P", "Q", "R", "S", "T", "U", "V", "W", "X", "Y", "Z"}

Lower ==
  {"a", "b", "c", "d", "e", "f", "g", "h", "i", "j", "k", "l", "m",
   "n", "o", "p", "q", "r", "s", "t", "u", "v", "w", "x", "y", "z"}

----------------------------------------------------------------------------
(* Python built-ins used by the driver.                                    *)

\* name = v, then the statements F that follow the assignment
bind(v, F(_)) == F(v)

bind2(v, w, F(_, _)) == F(v, w)

Return(v) == [err |-> "none", arg |-> <<>>, val |-> v]

Raise(e, a) == [err |-> e, arg |-> a, val |-> <<>>]

item(seq, j) == seq[j + 1]

\* seq[a:b]
slice(seq, a, b) == SubSeq(seq, a + 1, b)

RECURSIVE join(_, _)
join(sep, seqs) ==
  IF Len(seqs) = 0 THEN <<>>
  ELSE IF Len(seqs) = 1 THEN seqs[1]
  ELSE seqs[1] \o sep \o join(sep, Tail(seqs))

\* sum(ord(c) for c in s), added up by halves
RECURSIVE sum_ord(_)
sum_ord(s) ==
  IF Len(s) = 0 THEN 0
  ELSE IF Len(s) = 1 THEN ord(s[1])
  ELSE LET h == Len(s) \div 2
       IN sum_ord(SubSeq(s, 1, h)) + sum_ord(SubSeq(s, h + 1, Len(s)))

DigitValue(c) ==
  IF c \in Digits THEN ord(c) - ord("0") ELSE ord(c) - ord("A") + 10

\* int(s, base) on a string of digits of that base
RECURSIVE int_base(_, _)
int_base(s, base) ==
  IF Len(s) = 0 THEN 0
  ELSE int_base(SubSeq(s, 1, Len(s) - 1), base) * base + DigitValue(s[Len(s)])

int(s) == int_base(s, 10)

\* '%d' % j
RECURSIVE format_d(_)
format_d(j) ==
  IF j < 10 THEN <<Printable[17 + j]>>
  ELSE format_d(j \div 10) \o <<Printable[17 + (j % 10)]>>

\* s.split(sep) for a one-character separator
RECURSIVE split(_, _)
split(s, sep) ==
  IF \A i \in 1..Len(s) : s[i] # sep THEN <<s>>
  ELSE bind(CHOOSE i \in 1..Len(s) :
                 s[i] = sep /\ \A h \in 1..(i - 1) : s[h] # sep,
            LAMBDA k :
              <<SubSeq(s, 1, k - 1)>> \o split(SubSeq(s, k + 1, Len(s)), sep))

\* s.rstrip('\r\n')
RECURSIVE rstrip(_)
rstrip(s) ==
  IF Len(s) > 0 /\ s[Len(s)] \in {CR, LF} THEN rstrip(SubSeq(s, 1, Len(s) - 1))
  ELSE s

\* float(s) for s as the reading group can match it: '' is no number
float(s) ==
  IF Len(s) > 0 /\ \A i \in 1..Len(s) : s[i] \in Digits
  THEN Return([kind |-> "finite", n |-> int(s)])
  ELSE Raise("ValueError", s)

float_inf == [kind |-> "inf", n |-> 0]

is_leap(year) == year % 4 = 0 /\ (year % 100 # 0 \/ year % 400 = 0)

days_in_month(year, month) ==
  IF month = 2 THEN (IF is_leap(year) THEN 29 ELSE 28)
  ELSE IF month \in {4, 6, 9, 11} THEN 30 ELSE 31

\* datetime.datetime(year, month, day, hour, minute, second)
datetime(year, month, day, hour, minute, second) ==
  IF /\ year \in 1..9999
     /\ month \in 1..12
     /\ day \in 1..days_in_month(year, month)
     /\ hour \in 0..23
     /\ minute \in 0..59
     /\ second \in 0..59
  THEN Return([year |-> year, month |-> month, day |-> day,
               hour |-> hour, minute |-> minute, second |-> second])
  ELSE Raise("ValueError", <<year, month, day, hour, minute, second>>)

----------------------------------------------------------------------------
(* Regular expressions: every pattern of the driver is anchored and of     *)
(* fixed width per alternative, so a pattern is a sequence of character    *)
(* classes and a match is position by position.                            *)

lit(s) == [i \in 1..Len(s) |-> {s[i]}]

rep(cls, n) == [i \in 1..n |-> cls]

fullmatch(pat, s) ==
  Len(s) = Len(pat) /\ \A i \in 1..Len(s) : s[i] \in pat[i]

SP == lit(<<" ">>)

COLON == lit(<<":">>)

_CLOCK_RE ==
  <<Upper>> \o rep(Lower, 2) \o SP \o SP \o rep(Digits, 2) \o SP
    \o rep(Digits, 4) \o SP
    \o rep(Digits, 2) \o COLON \o rep(Digits, 2) \o COLON \o rep(Digits, 2)

_CLOCK_RE_match(s) ==
  IF fullmatch(_CLOCK_RE, s)
  THEN [ok |-> TRUE, month |-> slice(s, 0, 3), day |-> slice(s, 5, 7),
        year |-> slice(s, 8, 12), time |-> slice(s, 13, 21)]
  ELSE [ok |-> FALSE, month |-> <<>>, day |-> <<>>, year |-> <<>>, time |-> <<>>]

_EMPTY_RE ==
  lit(<<"L", "o", "g", " ", "E", "m", "p", "t", "y", " ", "E", "N", "D">>)

_COUNT_RE == rep(Digits, 3)

\* what follows the reading group in _READING_RE
_READING_RE_rest ==
  SP \o SP \o <<Upper>> \o rep(Lower, 2) \o SP \o SP \o rep(Digits, 2) \o SP
    \o rep(Digits, 4) \o SP \o rep(Digits, 2) \o COLON \o rep(Digits, 2) \o SP
    \o rep(Digits, 2) \o SP \o lit(<<"0", "x", "0">>) \o <<{"0", "1"}>>

\* the reading group: the empty alternative first, then three digits
_READING_RE_reading == <<<<>>, rep(Digits, 3)>>

_READING_RE_groups(s, w) ==
  [ok |-> TRUE, reading |-> slice(s, 0, w),
   month |-> slice(s, w + 2, w + 5), day |-> slice(s, w + 7, w + 9),
   year |-> slice(s, w + 10, w + 14), time |-> slice(s, w + 15, w + 20),
   type |-> slice(s, w + 21, w + 23), sentinel |-> slice(s, w + 24, w + 28)]

_READING_RE_match(s) ==
  IF fullmatch(_READING_RE_reading[1] \o _READING_RE_rest, s)
  THEN _READING_RE_groups(s, Len(_READING_RE_reading[1]))
  ELSE IF fullmatch(_READING_RE_reading[2] \o _READING_RE_rest, s)
  THEN _READING_RE_groups(s, Len(_READING_RE_reading[2]))
  ELSE [ok |-> FALSE, reading |-> <<>>, month |-> <<>>, day |-> <<>>,
        year |-> <<>>, time |-> <<>>, type |-> <<>>, sentinel |-> <<>>]

_CHECKSUM_RE ==
  lit(<<"0", "x">>) \o rep(HexDigits, 4) \o lit(<<" ", " ", "E", "N", "D">>)

_MONTH_MATCHES ==
  (<<"J", "a", "n">> :> 1) @@ (<<"F", "e", "b">> :> 2) @@
  (<<"M", "a", "r">> :> 3) @@ (<<"A", "p", "r">> :> 4) @@
  (<<"M", "a", "y">> :> 5) @@ (<<"J", "u", "n">> :> 6) @@
  (<<"J", "u", "l">> :> 7) @@ (<<"A", "u", "g">> :> 8) @@
  (<<"S", "e", "p">> :> 9) @@ (<<"O", "c", "t">> :> 10) @@
  (<<"N", "o", "v">> :> 11) @@ (<<"D", "e", "c">> :> 12)

_INFO_SIZE == 5

----------------------------------------------------------------------------
(* The line parsers.                                                       *)

_parse_clock(datestr) ==
  bind(_CLOCK_RE_match(datestr), LAMBDA match :
    IF ~match.ok THEN Raise("InvalidResponse", datestr)
    ELSE IF match.month \notin DOMAIN _MONTH_MATCHES
    THEN Raise("KeyError", match.month)
    ELSE bind(split(match.time, ":"), LAMBDA hms :
           datetime(int(match.year), _MONTH_MATCHES[match.month],
                    int(match.day), int(hms[1]), int(hms[2]), int(hms[3]))))

_parse_nrresults(countstr) ==
  IF fullmatch(_EMPTY_RE, countstr) THEN Return(0)
  ELSE IF fullmatch(_COUNT_RE, countstr) THEN Return(int(countstr))
  ELSE Raise("InvalidResponse", countstr)

MG_DL == "mg/dL"

_parse_info(d) ==
  IF Len(d) < _INFO_SIZE THEN Raise("InvalidResponse", join(<<LF>>, d))
  ELSE IF item(d, 0) # <<>> THEN Raise("InvalidResponse", join(<<LF>>, d))
  ELSE bind(_parse_clock(item(d, 3)), LAMBDA clock :
         IF clock.err # "none" THEN clock
         ELSE bind(_parse_nrresults(item(d, 4)), LAMBDA nrresults :
                IF nrresults.err # "none" THEN nrresults
                ELSE Return([device_version_ |-> item(d, 1),
                             software_revision_ |-> item(d, 2),
                             device_serialno_ |-> <<"N", "/", "A">>,
                             device_glucose_unit_ |-> MG_DL,
                             device_current_date_time_ |-> clock.val,
                             device_nrresults_ |-> nrresults.val])))

\* the record _parse_resline returns
resline_record(match, value, month, day, year, hm, timestamp) ==
  [value |-> value, day |-> day, month |-> month, year |-> year,
   hour |-> int(hm[1]), minute |-> int(hm[2]), timestamp |-> timestamp,
   READING |-> match.reading, TYPE |-> match.type,
   SENTINEL |-> match.sentinel]

_parse_resline(l, j) ==
  bind(_READING_RE_match(l), LAMBDA match :
    IF ~match.ok
    THEN Raise("InvalidResponse",
               <<"e", "r", "r", "o", "r", " ", "l", "i", "n", "e", " ">>
                 \o format_d(j) \o <<" ", "=", " ">> \o l)
    ELSE bind(IF match.reading = <<"H", "I", " ">>
              THEN Return(float_inf)
              ELSE float(match.reading),
         LAMBDA value :
           IF value.err # "none" THEN value
           ELSE IF match.month \notin DOMAIN _MONTH_MATCHES
           THEN Raise("KeyError", match.month)
           ELSE bind2(_MONTH_MATCHES[match.month], split(match.time, ":"),
                LAMBDA month, hm :
                  bind(datetime(int(match.year), month, int(match.day),
                                int(hm[1]), int(hm[2]), 0),
                  LAMBDA timestamp :
                    IF timestamp.err # "none" THEN timestamp
                    ELSE Return(resline_record(match, value.val, month,
                                               int(match.day), int(match.year),
                                               hm, timestamp.val))))))

_parse_checksum(l) ==
  IF ~fullmatch(_CHECKSUM_RE, l)
  THEN Raise("InvalidResponse", join(<<LF>>, [i \in 1..Len(l) |-> <<l[i]>>]))
  ELSE Return(int_base(slice(l, 2, 6), 16))

\* range(a, b)
range(a, b) == [i \in 1..(IF b > a THEN b - a ELSE 0) |-> a + i - 1]

\* the indices of the reading lines with the last one left out
reslog_range_short(n) == range(_INFO_SIZE + 1, _INFO_SIZE + n)

\* the indices j1 .. j2 - 1 of the reading lines
reslog_range(n) == range(_INFO_SIZE + 1, _INFO_SIZE + 1 + n)

\* the first exception the list comprehension over the reading lines meets
first_raised(reslog) ==
  reslog[CHOOSE k \in 1..Len(reslog) :
           reslog[k].err # "none" /\ \A h \in 1..(k - 1) : reslog[h].err = "none"]

\* _parse_result from the list comprehension on
parse_reslog(d, info, n) ==
  bind([k \in 1..Len(reslog_range(n)) |->
          _parse_resline(item(d, reslog_range(n)[k]), reslog_range(n)[k])],
  LAMBDA reslog :
    IF \E k \in 1..Len(reslog) : reslog[k].err # "none"
    THEN first_raised(reslog)
    ELSE IF n > 0
    THEN bind(_parse_checksum(item(d, _INFO_SIZE + 1 + n)), LAMBDA checksum :
           IF checksum.err # "none" THEN checksum
           ELSE Return([info |-> info,
                        reslog |-> [k \in 1..Len(reslog) |-> reslog[k].val],
                        checksum |-> checksum.val]))
    \* the local `checksum` was never assigned
    ELSE Raise("UnboundLocalError", <<"c", "h", "e", "c", "k", "s", "u", "m">>))

_parse_result(d) ==
  bind(_parse_info(d), LAMBDA info :
    IF info.err # "none" THEN info
    ELSE bind2(info.val.device_nrresults_,
               IF info.val.device_nrresults_ = 0 THEN _INFO_SIZE
               ELSE _INFO_SIZE + info.val.device_nrresults_ + 2,
         LAMBDA n, len_data1 :
           IF n # 0 /\ Len(d) <= _INFO_SIZE
           THEN Raise("IndexError", _INFO_SIZE)
           ELSE IF n # 0 /\ item(d, _INFO_SIZE) # <<>>
           THEN Raise("InvalidResponse", join(<<LF>>, d))
           ELSE IF Len(d) # len_data1
           THEN Raise("InvalidResponse", join(<<LF>>, d))
           ELSE parse_reslog(d, info.val, n)))

----------------------------------------------------------------------------
(* The device.                                                             *)

\* the decoding of Device._send_command: every line loses its line ending
_send_command(response) == [i \in 1..Len(response) |-> rstrip(response[i])]

\* cg without the reduction to 16 bits
checksum_gotten_unreduced(d, n) ==
  sum_ord(join(<<>>, SubSeq(d, 1, Len(d) - 1)))
    + (ord(CR) + ord(LF)) * (_INFO_SIZE + n) + ord(LF)

\* cg, the checksum gotten, of _fetch_device_information
checksum_gotten(d, n) ==
  LET wnl == (ord(CR) + ord(LF)) * (_INFO_SIZE + n)
      lnl == ord(LF)
  IN (sum_ord(join(<<>>, SubSeq(d, 1, Len(d) - 1))) + wnl + lnl) % (2 ^ 16)

NoAttributes == [a \in {} |-> 0]

\* the attribute assignments of _fetch_device_information
assign_attributes(s, res) ==
  [info_ |-> res.info,
   device_results_ |-> res.reslog,
   device_checksum_ |-> res.checksum,
   device_version_ |-> res.info.device_version_,
   software_revision_ |-> res.info.software_revision_,
   device_serialno_ |-> res.info.device_serialno_,
   device_glucose_unit_ |-> res.info.device_glucose_unit_,
   device_current_date_time_ |-> res.info.device_current_date_time_,
   device_nrresults_ |-> res.info.device_nrresults_] @@ s

\* the instance after the call, and how the call ended
_fetch_device_information(s, response) ==
  bind(_send_command(response), LAMBDA d :
    bind(_parse_result(d), LAMBDA res :
      IF res.err # "none"
      THEN [self |-> s, err |-> res.err, arg |-> res.arg]
      ELSE bind(assign_attributes(s, res.val), LAMBDA s1 :
             bind2(s1.device_nrresults_, s1.device_checksum_, LAMBDA n, ce :
               bind(checksum_gotten(d, n), LAMBDA cg :
                 IF n > 0 /\ ce # cg
                 THEN [self |-> s1, err |-> "InvalidChecksum",
                       arg |-> <<ce, cg>>]
                 ELSE [self |-> s1, err |-> "none", arg |-> <<>>])))))

\* the (timestamp, value) pairs get_readings yields
get_readings(s) ==
  [k \in 1..Len(s.device_results_) |->
     [timestamp |-> s.device_results_[k].timestamp,
      value |-> s.device_results_[k].value]]

----------------------------------------------------------------------------
(* The meter and the serial line: the responses the driver is run on.      *)

MaxReadings == 2

MaxCalls == 2

LongVersionLen == 520

\* n as w decimal digits, zero padded
zfill(n, w) == [i \in 1..w |-> Printable[17 + ((n \div (10 ^ (w - i))) % 10)]]

\* n as 4 upper-case hexadecimal digits
hex4(n) ==
  [i \in 1..4 |->
     LET h == (n \div (16 ^ (4 - i))) % 16
     IN IF h < 10 THEN Printable[17 + h] ELSE Printable[34 + (h - 10)]]

Blank == <<>>

Junk == <<"x">>

Version == <<"0", ".", "2", "2">>

Jan == <<"J", "a", "n">>

Feb == <<"F", "e", "b">>

Jun == <<"J", "u", "n">>

Dec == <<"D", "e", "c">>

Xyz == <<"X", "y", "z">>

HI == <<"H", "I", " ">>

LogEmptyEnd == <<"L", "o", "g", " ", "E", "m", "p", "t", "y", " ", "E", "N", "D">>

\* Mon  DD YYYY HH:MM:SS
clock_line(mon, dd, yyyy, hms) ==
  mon \o <<" ", " ">> \o dd \o <<" ">> \o yyyy \o <<" ">> \o hms

\* RRR  Mon  DD YYYY HH:MM TT 0x0S
reading_line(rrr, mon, dd, yyyy, hm, tt, sentinel) ==
  rrr \o <<" ", " ">> \o mon \o <<" ", " ">> \o dd \o <<" ">> \o yyyy
      \o <<" ">> \o hm \o <<" ">> \o tt \o <<" ">> \o sentinel

\* 0xHHHH  END
checksum_line(c) == <<"0", "x">> \o hex4(c) \o <<" ", " ", "E", "N", "D">>

hm(h, m) == zfill(h, 2) \o <<":">> \o zfill(m, 2)

hms(h, m, sec) == hm(h, m) \o <<":">> \o zfill(sec, 2)

GoodClock == clock_line(Jan, zfill(1, 2), zfill(2017, 4), hms(12, 0, 0))

BadClocks ==
  { clock_line(Jan, zfill(1, 1), zfill(2017, 4), hms(12, 0, 0)),
    clock_line(Xyz, zfill(1, 2), zfill(2017, 4), hms(12, 0, 0)),
    clock_line(Feb, zfill(30, 2), zfill(2017, 4), hms(12, 0, 0)) }

\* the k-th reading the meter holds
reading_at(k) ==
  IF k % 3 = 1
  THEN reading_line(zfill(100, 3), Jan, zfill(1, 2), zfill(2017, 4),
                    hm(12, 0), zfill(0, 2), <<"0", "x", "0", "0">>)
  ELSE IF k % 3 = 2
  THEN reading_line(zfill(85, 3), Dec, zfill(31, 2), zfill(2016, 4),
                    hm(23, 59), zfill(7, 2), <<"0", "x", "0", "1">>)
  ELSE reading_line(zfill(250, 3), Feb, zfill(28, 2), zfill(2017, 4),
                    hm(8, 30), zfill(0, 2), <<"0", "x", "0", "0">>)

HiReading ==
  reading_line(HI, Jan, zfill(1, 2), zfill(2017, 4), hm(12, 0),
               zfill(0, 2), <<"0", "x", "0", "0">>)

LongMonthReading ==
  reading_line(zfill(100, 3), Jun \o <<"e">>, zfill(1, 2), zfill(2017, 4),
               hm(12, 0), zfill(0, 2), <<"0", "x", "0", "0">>)

BadReadings ==
  { HiReading, LongMonthReading, Junk,
    reading_line(zfill(100, 3), Xyz, zfill(1, 2), zfill(2017, 4), hm(12, 0),
                 zfill(0, 2), <<"0", "x", "0", "0">>),
    reading_line(<<>>, Jan, zfill(1, 2), zfill(2017, 4), hm(12, 0),
                 zfill(0, 2), <<"0", "x", "0", "0">>),
    reading_line(zfill(100, 3), Feb, zfill(30, 2), zfill(2017, 4), hm(12, 0),
                 zfill(0, 2), <<"0", "x", "0", "0">>) }

\* the bytes on the serial line: every line ends \r\n, the blank line after
\* the info block ends \n alone
wire(lines) ==
  [i \in 1..Len(lines) |->
     lines[i] \o (IF i = _INFO_SIZE + 1 THEN <<LF>> ELSE <<CR, LF>>)]

\* the meter's 16-bit sum of the bytes it sent before the checksum line
meter_checksum(lines) == sum_ord(join(<<>>, wire(lines))) % (2 ^ 16)

\* the transcript of a meter whose log holds the reading lines `log`
transcript(version, count, log) ==
  LET head == <<Blank, version, version, GoodClock, count>>
  IN IF Len(log) = 0 THEN head
     ELSE LET body == head \o <<Blank>> \o log
          IN body \o <<checksum_line(meter_checksum(body))>>

replace_line(t, j, l) == [t EXCEPT ![j + 1] = l]

\* the lines that may stand in for line j of transcript t
alternatives(t, j) ==
  LET n == (Len(t) - _INFO_SIZE) - 2 IN
  IF j = 0 THEN {Junk}
  ELSE IF j = 3 THEN BadClocks
  ELSE IF j = 4
  THEN ({LogEmptyEnd, <<"a", "b", "c">>}
          \cup {zfill(k, 3) : k \in 0..MaxReadings}) \ {item(t, j)}
  ELSE IF j = _INFO_SIZE THEN {Junk}
  ELSE IF j > _INFO_SIZE /\ j <= _INFO_SIZE + n THEN BadReadings
  ELSE IF j > _INFO_SIZE + n
  THEN {checksum_line(0), <<"0", "x", "0", "0", "0", "0", " ", "E", "N", "D">>}
  ELSE {}

\* a transcript as it may arrive: intact, with one line replaced, cut short,
\* or with a line too many
arrivals(t) ==
  {t}
    \cup {replace_line(t, j, l) : <<j, l>> \in
            UNION {{<<j, l>> : l \in alternatives(t, j)} : j \in 0..(Len(t) - 1)}}
    \cup {SubSeq(t, 1, k) : k \in 0..(Len(t) - 1)}
    \cup {t \o <<l>> : l \in {Blank, Junk}}

LongVersion == [i \in 1..LongVersionLen |-> "~"]

Transcripts ==
  {transcript(Version, LogEmptyEnd, <<>>)}
    \cup {transcript(Version, zfill(n, 3), [k \in 1..n |-> reading_at(k)]) :
            n \in 0..MaxReadings}

Responses ==
  {wire(t) : t \in UNION {arrivals(t) : t \in Transcripts}}
    \cup { wire(transcript(Version, zfill(1, 3), <<HiReading>>)),
           wire(transcript(Version, zfill(1, 3), <<LongMonthReading>>)),
           wire(transcript(LongVersion, zfill(1, 3), <<reading_at(1)>>)) }

CorruptChars == {"0", "1", "b"}

replace_char(d, j, p, c) == [d EXCEPT ![j + 1] = [@ EXCEPT ![p] = c]]

----------------------------------------------------------------------------
(* The device's operations.                                                *)

NotCalled == [op |-> "none", err |-> "none", arg |-> <<>>]

NotYielded == [err |-> "not called", readings |-> <<>>]

NotParsed == [fn |-> "none", j |-> 0, err |-> "none", arg |-> <<>>, val |-> <<>>]

Init ==
  /\ data = <<>>
  /\ self = NoAttributes
  /\ outcome = NotCalled
  /\ garbled = <<>>
  /\ calls = 0
  /\ yielded = NotYielded
  /\ line = <<>>
  /\ parsed = NotParsed

\* connect() on the response the serial line delivers
connect(response) ==
  /\ data' = _send_command(response)
  /\ bind(_fetch_device_information(self, response), LAMBDA r :
       /\ self' = r.self
       /\ outcome' = [op |-> "connect", err |-> r.err, arg |-> r.arg])
  /\ calls' = calls + 1
  /\ yielded' = NotYielded
  /\ UNCHANGED <<line, parsed>>

Connect ==
  /\ calls < MaxCalls
  /\ \E response \in Responses :
       /\ connect(response)
       /\ garbled' = <<>>

\* connect() again after an accepted response, the meter sending the same
\* transcript and the line replacing one character of one reading line
ConnectGarbled ==
  /\ calls < MaxCalls
  /\ outcome.op = "connect" /\ outcome.err = "none"
  /\ \E j \in (_INFO_SIZE + 1)..(_INFO_SIZE + self.device_nrresults_) :
       \E p \in 1..Len(item(data, j)) :
         \E c \in CorruptChars \ {item(data, j)[p]} :
           /\ connect(wire(replace_char(data, j, p, c)))
           /\ garbled' = <<j, p>>

\* list(get_readings()); an instance never populated has no device_results_
GetReadings ==
  /\ yielded' = IF "device_results_" \in DOMAIN self
                THEN [err |-> "none", readings |-> get_readings(self)]
                ELSE [err |-> "AttributeError", readings |-> <<>>]
  /\ UNCHANGED <<data, self, outcome, garbled, calls, line, parsed>>

Next == Connect \/ ConnectGarbled \/ GetReadings

Spec == Init /\ [][Next]_vars

----------------------------------------------------------------------------
(* The line parsers on their own.                                          *)

Months == DOMAIN _MONTH_MATCHES

\* the months whose name has a fourth letter, cut after it
LongMonths ==
  { <<"J", "a", "n", "u">>, <<"F", "e", "b", "r">>, <<"M", "a", "r", "c">>,
    <<"A", "p", "r", "i">>, <<"J", "u", "n", "e">>, <<"J", "u", "l", "y">>,
    <<"A", "u", "g", "u">>, <<"S", "e", "p", "t">>, <<"O", "c", "t", "o">>,
    <<"N", "o", "v", "e">>, <<"D", "e", "c", "e">> }

MonthFields == Months \cup LongMonths \cup {Xyz, <<"j", "a", "n">>}

ReadingInputs ==
  { reading_line(rrr, mon, dd, zfill(2017, 4), t, tt, s) :
      rrr \in {zfill(100, 3), HI, <<>>, <<"1", " ", "0">>},
      mon \in MonthFields,
      dd \in {zfill(1, 2), zfill(31, 2), zfill(0, 2)},
      t \in {hm(12, 0), hm(24, 0)},
      tt \in {zfill(0, 2), zfill(7, 2)},
      s \in {<<"0", "x", "0", "0">>, <<"0", "x", "0", "2">>} }

ClockInputs ==
  { clock_line(mon, dd, zfill(2017, 4), t) :
      mon \in MonthFields,
      dd \in {zfill(1, 2), zfill(31, 2), zfill(0, 2), zfill(1, 1)},
      t \in {hms(12, 0, 0), hm(12, 0), hms(12, 0, 60)} }

InitLine ==
  /\ line \in ReadingInputs \cup ClockInputs
  /\ parsed = NotParsed
  /\ data = <<>>
  /\ self = NoAttributes
  /\ outcome = NotCalled
  /\ garbled = <<>>
  /\ calls = 0
  /\ yielded = NotYielded

ParseClock ==
  /\ bind(_parse_clock(line), LAMBDA r :
       parsed' = [fn |-> "_parse_clock", j |-> 0, err |-> r.err,
                  arg |-> r.arg, val |-> r.val])
  /\ UNCHANGED <<line, data, self, outcome, garbled, calls, yielded>>

ParseResline ==
  \E j \in (_INFO_SIZE + 1)..(_INFO_SIZE + MaxReadings) :
    /\ bind(_parse_resline(line, j), LAMBDA r :
         parsed' = [fn |-> "_parse_resline", j |-> j, err |-> r.err,
                    arg |-> r.arg, val |-> r.val])
    /\ UNCHANGED <<line, data, self, outcome, garbled, calls, yielded>>

NextLine == ParseClock \/ ParseResline

SpecLine == InitLine /\ [][NextLine]_vars

----------------------------------------------------------------------------
(* Properties.                                                             *)

Connected == outcome.op = "connect"

\* the 16-bit value a checksum line 0xHHHH  END declares
Declared(l) == int_base(SubSeq(l, 3, 6), 16)

\* the sum of the character codes of every line but the last
CodeSum(d) == sum_ord(join(<<>>, SubSeq(d, 1, Len(d) - 1)))

\* C1: a response of exactly 5 lines whose line 0 is empty, whose line 3 is a
\* valid clock line and whose line 4 is `Log Empty END` or `000` makes
\* connect complete without error, with result count 0 and no readings.
C1_EmptyLogParses ==
  (/\ Connected
   /\ Len(data) = 5
   /\ item(data, 0) = Blank
   /\ _parse_clock(item(data, 3)).err = "none"
   /\ item(data, 4) \in {LogEmptyEnd, zfill(0, 3)})
  => /\ outcome.err = "none"
     /\ "device_nrresults_" \in DOMAIN self
     /\ self.device_nrresults_ = 0
     /\ self.device_results_ = <<>>

\* C2: after a structurally valid parse with N > 0, connect succeeds exactly
\* when (sum of the character codes of every line but the checksum line
\* + 23 * (5 + N) + 10) mod 65536 equals the value the checksum line declares,
\* and otherwise raises InvalidChecksum carrying the expected and the computed
\* value.
C2_ChecksumVerification ==
  (Connected /\ _parse_result(data).err = "none")
  => LET N == _parse_result(data).val.info.device_nrresults_
         computed == (CodeSum(data) + 23 * (5 + N) + 10) % 65536
         declared == Declared(data[Len(data)])
     IN N > 0
        => /\ (outcome.err = "none") <=> (computed = declared)
           /\ (computed # declared)
                => /\ outcome.err = "InvalidChecksum"
                   /\ outcome.arg = <<declared, computed>>

\* an accepted response with N > 0 whose sum wraps around 65536
C2_Witness ==
  /\ Connected
  /\ outcome.err = "none"
  /\ self.device_nrresults_ > 0
  /\ CodeSum(data) + 23 * (5 + self.device_nrresults_) + 10 >= 65536
  /\ garbled = <<>>

\* the reading grammar as specified: three digits or `HI `, two spaces, a
\* month of three or four letters, two spaces, DD YYYY HH:MM TT 0x0S
ReadingGrammar(w) ==
  rep(Chars, 3) \o SP \o SP \o <<Upper>> \o rep(Lower, w - 1) \o SP \o SP
    \o rep(Digits, 2) \o SP \o rep(Digits, 4) \o SP \o rep(Digits, 2) \o COLON
    \o rep(Digits, 2) \o SP \o rep(Digits, 2) \o SP \o lit(<<"0", "x", "0">>)
    \o <<{"0", "1"}>>

MatchesReadingGrammar(l) ==
  /\ Len(l) >= 3
  /\ SubSeq(l, 1, 3) = HI \/ fullmatch(rep(Digits, 3), SubSeq(l, 1, 3))
  /\ \E w \in {3, 4} : fullmatch(ReadingGrammar(w), l)

\* the indices of the lines between the blank line 5 and the last line
ReadingIndices(d) == (_INFO_SIZE + 1)..(Len(d) - 2)

\* C3: one character of one reading line of an accepted response (N > 0)
\* replaced by another, the line count kept and every reading line still
\* matching the reading grammar, makes connect fail with InvalidChecksum and
\* with no other error.
C3_CorruptionIsChecksumFault ==
  (/\ Connected
   /\ garbled # <<>>
   /\ \A j \in ReadingIndices(data) : MatchesReadingGrammar(item(data, j)))
  => outcome.err = "InvalidChecksum"

\* C4: a connect that fails leaves every attribute of the instance as it was
\* before the call.
C4_NoPartialResults ==
  [][(outcome'.op = "connect" /\ outcome'.err # "none") => self' = self]_vars

\* the result count of the info block
Count(d) == _parse_info(d).val.device_nrresults_

\* C7: when the info block parses to result count N, a response whose line
\* count is not 5 (N = 0) or not 7 + N (N > 0), or whose line 5 is not empty
\* (N > 0), fails with InvalidResponse and with no other error.
C7_ShapeCheck ==
  (/\ Connected
   /\ _parse_info(data).err = "none"
   /\ \/ Count(data) = 0 /\ Len(data) # 5
      \/ Count(data) > 0 /\ Len(data) # 7 + Count(data)
      \/ Count(data) > 0 /\ Len(data) > 5 /\ item(data, 5) # Blank)
  => outcome.err = "InvalidResponse"

MonthNames ==
  << <<"J", "a", "n">>, <<"F", "e", "b">>, <<"M", "a", "r">>,
     <<"A", "p", "r">>, <<"M", "a", "y">>, <<"J", "u", "n">>,
     <<"J", "u", "l">>, <<"A", "u", "g">>, <<"S", "e", "p">>,
     <<"O", "c", "t">>, <<"N", "o", "v">>, <<"D", "e", "c">> >>

MonthOrdinal(m) == CHOOSE i \in 1..Len(MonthNames) : MonthNames[i] = m

\* the fields of a reading line RRR  Mon  DD YYYY HH:MM TT 0x0S, by position
FieldsOf(l) ==
  [READING |-> SubSeq(l, 1, 3), TYPE |-> SubSeq(l, 25, 26),
   SENTINEL |-> SubSeq(l, 28, 31), value |-> int(SubSeq(l, 1, 3)),
   month |-> MonthOrdinal(SubSeq(l, 6, 8)), day |-> int(SubSeq(l, 11, 12)),
   year |-> int(SubSeq(l, 14, 17)), hour |-> int(SubSeq(l, 19, 20)),
   minute |-> int(SubSeq(l, 22, 23))]

IsRecordOf(r, l) ==
  /\ r.READING = FieldsOf(l).READING
  /\ r.TYPE = FieldsOf(l).TYPE
  /\ r.SENTINEL = FieldsOf(l).SENTINEL
  /\ r.value = [kind |-> "finite", n |-> FieldsOf(l).value]
  /\ r.timestamp = [year |-> FieldsOf(l).year, month |-> FieldsOf(l).month,
                    day |-> FieldsOf(l).day, hour |-> FieldsOf(l).hour,
                    minute |-> FieldsOf(l).minute, second |-> 0]

Populated == "device_results_" \in DOMAIN self

\* C9: whenever the instance has been populated, it holds as many reading
\* records as the info block's result count; the k-th record is decoded from
\* response line 5 + k, whatever its type code; and get_readings yields
\* exactly these readings in that order.
C9_ReadingCount ==
  /\ Populated
       => /\ Len(self.device_results_) = self.device_nrresults_
          /\ self.info_.device_nrresults_ = self.device_nrresults_
  /\ (Connected /\ outcome.err \in {"none", "InvalidChecksum"})
       => /\ Populated
          /\ self.device_nrresults_ = Len(data) - 7
          /\ \A k \in 1..self.device_nrresults_ :
               IsRecordOf(self.device_results_[k], item(data, 5 + k))
  /\ yielded.err = "none"
       => /\ Populated
          /\ Len(yielded.readings) = self.device_nrresults_
          /\ \A k \in 1..self.device_nrresults_ :
               /\ yielded.readings[k].timestamp
                    = self.device_results_[k].timestamp
               /\ yielded.readings[k].value = self.device_results_[k].value

\* two readings, the second of type 07, stored and yielded
C9_Witness ==
  /\ Connected
  /\ outcome.err = "none"
  /\ self.device_nrresults_ = 2
  /\ self.device_results_[2].TYPE = <<"0", "7">>
  /\ yielded.err = "none"
  /\ Len(yielded.readings) = 2
  /\ yielded.readings[2].value = [kind |-> "finite", n |-> 85]

\* the clock grammar as specified: Mon  DD YYYY HH:MM:SS
ClockGrammar ==
  <<Upper>> \o rep(Lower, 2) \o SP \o SP \o rep(Digits, 2) \o SP
    \o rep(Digits, 4) \o SP \o rep(Digits, 2) \o COLON \o rep(Digits, 2)
    \o COLON \o rep(Digits, 2)

\* the line matches the clock grammar and its month is one of the twelve
ClockLineOk(l) == fullmatch(ClockGrammar, l) /\ SubSeq(l, 1, 3) \in Months

\* the line matches the reading grammar and its month is one of the twelve
ReadingLineOk(l) == MatchesReadingGrammar(l) /\ SubSeq(l, 6, 8) \in Months

\* the count line is the empty-log literal or three digits
CountLineOk(l) == l = LogEmptyEnd \/ fullmatch(rep(Digits, 3), l)

CountOf(l) == IF l = LogEmptyEnd THEN 0 ELSE int(l)

\* every structural check and every line check passes
WellFormed(d) ==
  /\ Len(d) >= 5
  /\ item(d, 0) = Blank
  /\ ClockLineOk(item(d, 3))
  /\ CountLineOk(item(d, 4))
  /\ \/ CountOf(item(d, 4)) = 0 /\ Len(d) = 5
     \/ /\ CountOf(item(d, 4)) > 0
        /\ Len(d) = 7 + CountOf(item(d, 4))
        /\ item(d, 5) = Blank
        /\ \A j \in ReadingIndices(d) : ReadingLineOk(item(d, j))
        /\ fullmatch(_CHECKSUM_RE, d[Len(d)])

\* the last line is a checksum line and disagrees with the lines before it
CarriesWrongChecksum(d) ==
  /\ Len(d) >= 2
  /\ fullmatch(_CHECKSUM_RE, d[Len(d)])
  /\ Declared(d[Len(d)]) # (CodeSum(d) + 23 * (Len(d) - 2) + 10) % 65536

\* C10: InvalidChecksum is raised only for a response with N > 0 that passes
\* every structural and line check, and a response that is malformed and
\* carries a wrong checksum fails with InvalidResponse.
C10_InvalidResponseBeforeChecksum ==
  Connected
  => /\ outcome.err = "InvalidChecksum"
          => (WellFormed(data) /\ CountOf(item(data, 4)) > 0)
     /\ (~WellFormed(data) /\ CarriesWrongChecksum(data))
          => outcome.err = "InvalidResponse"

\* C5: a reading line whose reading field is `HI `, its other fields those of
\* a line the parser accepts, is accepted and yields the value positive
\* infinity and the timestamp of the line.
C5_HiReadingAccepted ==
  (/\ parsed.fn = "_parse_resline"
   /\ Len(line) > 3
   /\ SubSeq(line, 1, 3) = HI
   /\ _parse_resline(zfill(100, 3) \o SubSeq(line, 4, Len(line)), parsed.j).err
        = "none")
  => /\ parsed.err = "none"
     /\ parsed.val.value = float_inf
     /\ parsed.val.timestamp
          = _parse_resline(zfill(100, 3) \o SubSeq(line, 4, Len(line)),
                           parsed.j).val.timestamp

\* the line with the fourth letter of its month field taken out
ShortMonth(l) == SubSeq(l, 1, 8) \o SubSeq(l, 10, Len(l))

\* C6: a reading line with a four-character month field is accepted like the
\* line with the three-letter abbreviation of the same first three letters,
\* and yields the same month ordinal and timestamp.
C6_MonthWidthTolerance ==
  (/\ parsed.fn = "_parse_resline"
   /\ fullmatch(ReadingGrammar(4), line)
   /\ SubSeq(line, 6, 8) \in Months
   /\ _parse_resline(ShortMonth(line), parsed.j).err = "none")
  => /\ parsed.err = "none"
     /\ parsed.val.month = _parse_resline(ShortMonth(line), parsed.j).val.month
     /\ parsed.val.month = MonthOrdinal(SubSeq(line, 6, 8))
     /\ parsed.val.timestamp
          = _parse_resline(ShortMonth(line), parsed.j).val.timestamp

\* the exception's argument ends with the raw line
Carries(a, l) ==
  Len(a) >= Len(l) /\ SubSeq(a, Len(a) - Len(l) + 1, Len(a)) = l

\* C8: a clock line or a reading line that does not match its grammar, or
\* whose month token is not one of the twelve of the month table, makes its
\* parser fail with InvalidResponse carrying the raw line, and with no other
\* error.
C8_MalformedLineIsInvalidResponse ==
  (\/ parsed.fn = "_parse_clock" /\ ~ClockLineOk(line)
   \/ parsed.fn = "_parse_resline" /\ ~ReadingLineOk(line))
  => /\ parsed.err = "InvalidResponse"
     /\ Carries(parsed.arg, line)

====
